---- MODULE Spec2Model ----
(***************************************************************************)
(* Model of packages/server/src/internals/procedure.ts: the Procedure      *)
(* aggregate (constructor, parseInput, parseOutput, call,                  *)
(* inheritMiddlewares), getParseFn and createProcedure.                    *)
(*                                                                         *)
(* JavaScript values are modelled as follows.  Plain data (contexts, raw   *)
(* and parsed inputs, outputs) are strings.  A thrown value is a record:   *)
(* a TRPCError is [trpc |-> TRUE, code, message, cause], anything else is  *)
(* [trpc |-> FALSE, val].  A value returned by a link of the middleware    *)
(* chain is a record tagged by t: a result object (t = "result") or a      *)
(* primitive / foreign object a middleware returned on its own.            *)
(***************************************************************************)
EXTENDS Naturals, Sequences, FiniteSets, TLC

(***************************************************************************)
(* Bounds of the model.                                                    *)
(***************************************************************************)
\* Longest middleware list of a procedure declared before the calls start.
MaxMiddlewares == 2
\* Procedure instances alive in one run of the composition specification.
MaxProcedures == 3
\* next() invocations the middlewares of one call() may make in total.
MaxNextCalls == 2
\* Constructions attempted in one run of the construction specification.
MaxConstructions == 1

(***************************************************************************)
(* Thrown values and classified errors (TRPCError).                        *)
(***************************************************************************)
\* A non-error JavaScript value used as a thrown value or a cause.
Plain(v) == [trpc |-> FALSE, val |-> v]

Undefined == Plain("undefined")

\* new TRPCError({ code, message, cause })
TRPCError(code, message, cause) ==
    [trpc |-> TRUE, code |-> code, message |-> message, cause |-> cause]

IsTRPCError(e) == e.trpc

\* Values user code (middlewares, resolver, validators) may throw.
ThrownValues ==
    { TRPCError("FORBIDDEN", "no access", Undefined),
      Plain("boom") }

\* The error kinds a caller of call() may observe.
ErrorCodes == {"BAD_REQUEST", "INTERNAL_SERVER_ERROR", "FORBIDDEN"}

\* getErrorFromUnknown: a TRPCError passes through unchanged, anything else
\* is wrapped as INTERNAL_SERVER_ERROR with the value as cause.
getErrorFromUnknown(err) ==
    IF IsTRPCError(err)
    THEN err
    ELSE TRPCError("INTERNAL_SERVER_ERROR", "Internal server error", err)

(***************************************************************************)
(* Completions of one asynchronous step: it returned val or it threw err.  *)
(***************************************************************************)
Returned(v) == [threw |-> FALSE, val |-> v]

Threw(e) == [threw |-> TRUE, err |-> e]

\* wrapCallSafe(fn): { ok: true, data } or { ok: false, error }.
wrapCallSafe(comp) ==
    IF comp.threw
    THEN [ok |-> FALSE, error |-> getErrorFromUnknown(comp.err)]
    ELSE [ok |-> TRUE, data |-> comp.val]

(***************************************************************************)
(* Values a link of the chain returns.                                     *)
(***************************************************************************)
\* The object the terminal link returns: { marker, ok: true, data, ctx }.
OkResult(data, ctx) ==
    [t |-> "result", marker |-> TRUE, ok |-> TRUE, data |-> data, ctx |-> ctx]

\* The object a next continuation returns for a failed link.
ErrResult(error) == [t |-> "result", ok |-> FALSE, error |-> error]

\* Values a middleware may return on its own instead of the result of next:
\* undefined and "" (falsy), {} (truthy, without ok, data or error), and
\* objects it made in the shape of a result: { ok: true, data: "forged" }
\* and { ok: false, error: "rawstring" }.  A result of an earlier next that
\* a middleware kept and returns later is a value of this last kind.
OwnValues ==
    { [t |-> "undefined"],
      [t |-> "emptyString"],
      [t |-> "emptyObject"],
      [t |-> "result", ok |-> TRUE, data |-> "forged"],
      [t |-> "result", ok |-> FALSE, error |-> Plain("rawstring")] }

\* JavaScript truthiness of a value a link returned (!result is ~Truthy).
Truthy(v) == v.t \notin {"undefined", "null", "emptyString", "false", "zero"}

\* result.ok as a condition: a missing property reads undefined, which is falsy.
OkOf(v) == IF "ok" \in DOMAIN v THEN v.ok ELSE FALSE

\* result.error: a missing property reads undefined.
ErrorOf(v) == IF "error" \in DOMAIN v THEN v.error ELSE Undefined

\* result.data: a missing property reads undefined.
DataOf(v) == IF "data" \in DOMAIN v THEN v.data ELSE "undefined"

(***************************************************************************)
(* Validators and getParseFn.                                              *)
(***************************************************************************)
\* A validator value: whether typeof is 'function', and which of the
\* methods parseAsync / parse / validateSync / create it has.
Validator(id, callable, caps) == [id |-> id, callable |-> callable, caps |-> caps]

\* opts.input / opts.output left out (undefined).
NoValidator == Validator("undefined", FALSE, {})

\* The function createProcedure substitutes when no input is declared.
NoInputParser == Validator("noInputExpected", TRUE, {})

ZodEsque == Validator("zod", FALSE, {"parseAsync", "parse"})

\* The identity the constructor uses when output validation is off.
IdentityFn == [parser |-> "identity", via |-> "self"]

\* The parse function getParseFn returns: a method of the validator, bound
\* to it, or the validator itself.
BoundFn(parser, via) == [parser |-> parser.id, via |-> via]

\* Mutant of getParseFn: parse is looked for before parseAsync.
getParseFnParseFirst(parser) ==
    IF parser.callable THEN Returned(BoundFn(parser, "self"))
    ELSE IF "parse" \in parser.caps THEN Returned(BoundFn(parser, "parse"))
    ELSE IF "parseAsync" \in parser.caps THEN Returned(BoundFn(parser, "parseAsync"))
    ELSE IF "validateSync" \in parser.caps THEN Returned(BoundFn(parser, "validateSync"))
    ELSE IF "create" \in parser.caps THEN Returned(BoundFn(parser, "create"))
    ELSE Threw(Plain("Error: Could not find a validator fn"))

getParseFn(parser) ==
    IF parser.callable THEN Returned(BoundFn(parser, "self"))
    ELSE IF "parseAsync" \in parser.caps THEN Returned(BoundFn(parser, "parseAsync"))
    ELSE IF "parse" \in parser.caps THEN Returned(BoundFn(parser, "parse"))
    ELSE IF "validateSync" \in parser.caps THEN Returned(BoundFn(parser, "validateSync"))
    ELSE IF "create" \in parser.caps THEN Returned(BoundFn(parser, "create"))
    ELSE Threw(Plain("Error: Could not find a validator fn"))

\* Mutant of NoInputExpected: the test is input !== undefined.
NoInputExpectedStrict(input) ==
    IF input # "undefined"
    THEN Threw(TRPCError("BAD_REQUEST", "No input expected", Undefined))
    ELSE Returned("undefined")

\* The function createProcedure substitutes: throws when input != null
\* (neither undefined nor null), else returns undefined.
NoInputExpected(input) ==
    IF input \notin {"undefined", "null"}
    THEN Threw(TRPCError("BAD_REQUEST", "No input expected", Undefined))
    ELSE Returned("undefined")

\* Values a declared validator may return for a value it accepts.
ParsedValues == {"coerced"}

\* What a parse function may do with a value.  The identity and the
\* no-input function are the code's; a declared validator is user code: it
\* returns a parsed value or throws.
ParseFnOutcomes(fn, value) ==
    IF fn.parser = "identity" THEN { Returned(value) }
    ELSE IF fn.parser = "noInputExpected" THEN { NoInputExpected(value) }
    ELSE { Returned(v) : v \in ParsedValues } \cup { Threw(e) : e \in ThrownValues }

(***************************************************************************)
(* Procedure: constructor, createProcedure, inheritMiddlewares.            *)
(***************************************************************************)
Middlewares == {"A", "B", "C"}

\* The order in which the procedure of the call specification declares its
\* middlewares.  The names are labels: what a middleware does (invoke next,
\* return, throw) is chosen at each of its steps.
DeclarationOrder == << "A", "B", "C" >>

Resolvers == {"R"}

\* Mutant of ValidatesOutput: the skip toggle is not consulted.
ValidatesOutputIgnoresSkip(outputParser, skip) == outputParser # NoValidator

\* Whether the constructor resolves the output validator: one is declared
\* and process.env.TRPC_SKIP_OUTPUT_VALIDATION is not 'true'.
ValidatesOutput(outputParser, skip) == outputParser # NoValidator /\ ~skip

\* new Procedure(opts), run while the skip toggle is `skip`: the instance,
\* or the error getParseFn threw.
Procedure(opts, skip) ==
    LET inFn  == getParseFn(opts.inputParser)
        outFn == IF ValidatesOutput(opts.outputParser, skip)
                 THEN getParseFn(opts.outputParser)
                 ELSE Returned(IdentityFn)
    IN  IF inFn.threw THEN inFn
        ELSE IF outFn.threw THEN outFn
        ELSE Returned([ middlewares   |-> opts.middlewares,
                        resolver      |-> opts.resolver,
                        inputParser   |-> opts.inputParser,
                        parseInputFn  |-> inFn.val,
                        outputParser  |-> opts.outputParser,
                        parseOutputFn |-> outFn.val ])

\* createProcedure(opts): opts.input when given, else the no-input parser;
\* the middleware list starts empty.
createProcedure(opts, skip) ==
    Procedure([ inputParser  |-> IF opts.input # NoValidator
                                 THEN opts.input ELSE NoInputParser,
                resolver     |-> opts.resolve,
                middlewares  |-> << >>,
                outputParser |-> opts.output ], skip)

\* Mutant of InheritedList: the added middlewares are put last.
InheritedListAppends(middlewares, existing) == existing \o middlewares

\* The list the derived instance gets: [...middlewares, ...this.middlewares].
InheritedList(middlewares, existing) == middlewares \o existing

\* this.inheritMiddlewares(middlewares), run while the skip toggle is `skip`.
inheritMiddlewares(this, middlewares, skip) ==
    Procedure([ middlewares  |-> InheritedList(middlewares, this.middlewares),
                resolver     |-> this.resolver,
                inputParser  |-> this.inputParser,
                outputParser |-> this.outputParser ], skip)

\* Options createProcedure is called with.
CreateOptions ==
    [ input : {NoValidator, ZodEsque}, output : {NoValidator, ZodEsque},
      resolve : Resolvers ]

\* The methods getParseFn looks for on a validator.
Methods == {"parseAsync", "parse", "validateSync", "create"}

\* Validator values of every shape: a function or not, with any subset of
\* the methods.
ValidatorsNamed(id) ==
    { Validator(id, callable, caps) : callable \in BOOLEAN, caps \in SUBSET Methods }

\* Options createProcedure is called with in the construction specification:
\* any input validator or none; no output validator, a supported one, or an
\* object without any of the methods.
AnyCreateOptions ==
    [ input : {NoValidator} \cup ValidatorsNamed("in"),
      output : {NoValidator, ZodEsque, Validator("out", FALSE, {})},
      resolve : Resolvers ]

\* Lists inheritMiddlewares is called with.
AdditionalLists == { << m >> : m \in Middlewares }

(***************************************************************************)
(* Pure parts of call().                                                   *)
(***************************************************************************)
\* Mutant of parseInput: a classified error of the validator is rethrown
\* as it is.
parseInputKeepsClassified(comp) ==
    IF comp.threw /\ ~IsTRPCError(comp.err)
    THEN Threw(TRPCError("BAD_REQUEST", "Input validation failed", comp.err))
    ELSE comp

\* parseInput(rawInput), given what this.parseInputFn did.
parseInput(comp) ==
    IF comp.threw
    THEN Threw(TRPCError("BAD_REQUEST", "Input validation failed", comp.err))
    ELSE comp

\* parseOutput(rawOutput), given what this.parseOutputFn did.
parseOutput(comp) ==
    IF comp.threw
    THEN Threw(TRPCError("INTERNAL_SERVER_ERROR", "Output validation failed", comp.err))
    ELSE comp

\* The name of the synthetic link that wraps the resolver.
Terminal == "$resolver"

\* this.middlewares.concat([ async ({ ctx }) => ... ])
middlewaresWithResolver(this) == this.middlewares \o << Terminal >>

\* The argument of a next continuation: nothing, or { ctx }.
NoNextOpts == [given |-> FALSE, ctx |-> "undefined"]

Override(ctx) == [given |-> TRUE, ctx |-> ctx]

\* Mutant of NextCtx: the call's context is read from a place all calls
\* share, which holds the context of the first caller.
NextCtxOfFirstCall(nextOpts, opts) ==
    IF nextOpts.given THEN nextOpts.ctx ELSE "ctxA"

\* Mutant of NextCtx: the override of the caller is dropped.
NextCtxIgnoresOverride(nextOpts, opts) == opts.ctx

\* ctx: nextOpts ? nextOpts.ctx : opts.ctx
NextCtx(nextOpts, opts) == IF nextOpts.given THEN nextOpts.ctx ELSE opts.ctx

\* Mutant of NextIndex: the continuation handed to a link skips a link.
NextIndexSkipsOne(index) == index + 2

\* next: nextFns[index + 1]
NextIndex(index) == index + 1

\* this.resolver({ ...opts, ctx, input })
ResolverArgs(opts, ctx, input) ==
    [ ctx |-> ctx, rawInput |-> opts.rawInput, path |-> opts.path,
      type |-> opts.type, input |-> input ]

\* Mutant of nextFn: a failed link's error is always wrapped anew.
nextFnRewraps(comp) ==
    LET res == wrapCallSafe(comp)
    IN  IF res.ok THEN res.data
        ELSE ErrResult(TRPCError("INTERNAL_SERVER_ERROR", "Internal server error",
                                 res.error))

\* Mutant of nextFn: the value a link threw is handed on as it is.
nextFnUnclassified(comp) ==
    IF comp.threw THEN ErrResult(comp.err) ELSE comp.val

\* What a next continuation returns, given how the link it ran completed.
nextFn(comp) ==
    LET res == wrapCallSafe(comp)
    IN  IF res.ok THEN res.data ELSE ErrResult(getErrorFromUnknown(res.error))

NoResultMessage == "No result from middlewares - did you forget to return next()?"

Resolved(data) == [status |-> "resolved", value |-> data, error |-> Undefined]

Rejected(error) == [status |-> "rejected", value |-> "undefined", error |-> error]

\* Mutant of CallOutcome: the test of a missing result is left out.
CallOutcomeNoResultCheck(result) ==
    IF ~OkOf(result) THEN Rejected(ErrorOf(result))
    ELSE Resolved(DataOf(result))

\* The end of call(), given result = await nextFns[0]().
CallOutcome(result) ==
    IF ~Truthy(result)
    THEN Rejected(TRPCError("INTERNAL_SERVER_ERROR", NoResultMessage, Undefined))
    ELSE IF ~OkOf(result) THEN Rejected(ErrorOf(result))
    ELSE Resolved(DataOf(result))

(***************************************************************************)
(* State.                                                                  *)
(***************************************************************************)
VARIABLES
    skipEnv,   \* process.env.TRPC_SKIP_OUTPUT_VALIDATION === 'true'
    procs,     \* the Procedure instances, in order of construction
    derived,   \* history: how each instance was constructed
    failed,    \* history: the constructions that threw
    calls      \* the executions of call(), by call id

vars == << skipEnv, procs, derived, failed, calls >>

\* Arguments of call(): { ctx, rawInput, path, type }.
CallOptions ==
    { [ctx |-> "ctx0", rawInput |-> "undefined", path |-> "greeting", type |-> "query"],
      [ctx |-> "ctx0", rawInput |-> "null", path |-> "greeting", type |-> "query"],
      [ctx |-> "ctx0", rawInput |-> "raw1", path |-> "post.add", type |-> "mutation"] }

\* The arguments of the two calls made side by side: they differ in ctx,
\* rawInput, path and type.
CallerOpts ==
    << [ctx |-> "ctxA", rawInput |-> "rawA", path |-> "a.get", type |-> "query"],
       [ctx |-> "ctxB", rawInput |-> "rawB", path |-> "b.set", type |-> "mutation"] >>

\* Contexts a middleware may pass to next({ ctx }).
OverrideCtxs == {"ctx1"}

NextOptsChoices == {NoNextOpts} \cup { Override(x) : x \in OverrideCtxs }

\* Values the resolver may return.
Outputs == {"out1"}

\* What the resolver (user code) may do when invoked.
ResolverOutcomes ==
    { Returned(o) : o \in Outputs } \cup { Threw(e) : e \in ThrownValues }

NoValue == [t |-> "none"]

NoArgs == [none |-> TRUE]

\* History of the value a link delivered last: which event produced it
\* (a throw of a validator, the resolver or a middleware, a value a
\* middleware returned on its own, or the terminal link's result), at which
\* link, the value thrown, and for the terminal link the resolver's output
\* (raw) and the parsed output (data).  A middleware that returns the
\* result of next leaves it as it is.
Origin(kind, at, thrown, raw, data) ==
    [kind |-> kind, at |-> at, thrown |-> thrown, raw |-> raw, data |-> data,
     kept |-> FALSE]

NoOrigin == Origin("none", 0, Undefined, "undefined", "undefined")

\* A call() that has not been made.
IdleCall ==
    [ status |-> "idle", proc |-> 0,
      opts |-> [ctx |-> "undefined", rawInput |-> "undefined",
                path |-> "", type |-> "query"],
      links |-> << >>,       \* middlewaresWithResolver of this call
      stack |-> << >>,       \* the link invocations in progress, outermost first
      order |-> << >>,       \* history: links and user functions invoked, in order
      nextCalls |-> << >>,   \* next() invocations made so far by each link
      origin |-> NoOrigin,   \* history: where the value last delivered came from
      args |-> NoArgs,       \* history: the last argument bundle of the resolver
      result |-> NoValue,    \* result = await nextFns[0]()
      value |-> "undefined", \* what call() resolved with
      error |-> Undefined ]  \* what call() rejected with

\* Mutant of Frame: the input is parsed when the first link is entered.
FrameParsesInputFirst(index, ctx, links) ==
    [ index |-> index, ctx |-> ctx,
      pc |-> IF index = 1 \/ links[index] = Terminal THEN "parseInput" ELSE "run",
      nextOpts |-> NoNextOpts, res |-> NoValue, seen |-> {},
      input |-> "undefined", rawOutput |-> "undefined" ]

\* Mutant of Frame: the terminal link invokes the resolver without parsing
\* the input first.
FrameResolvesFirst(index, ctx, links) ==
    [ index |-> index, ctx |-> ctx,
      pc |-> IF links[index] = Terminal THEN "resolve" ELSE "run",
      nextOpts |-> NoNextOpts, res |-> NoValue, seen |-> {},
      input |-> "undefined", rawOutput |-> "undefined" ]

\* The invocation of link `index` with context `ctx`.  pc is where the link
\* is: a middleware is in its own code ("run"); the terminal link is at one
\* of its three awaits, the first being the input parse.
Frame(index, ctx, links) ==
    [ index |-> index, ctx |-> ctx,
      pc |-> IF links[index] = Terminal THEN "parseInput" ELSE "run",
      nextOpts |-> NoNextOpts, res |-> NoValue, seen |-> {},
      input |-> "undefined", rawOutput |-> "undefined" ]

Event(index, name) == [link |-> index, name |-> name]

Top(c) == calls[c].stack[Len(calls[c].stack)]

RECURSIVE SumSeq(_)
SumSeq(s) == IF s = << >> THEN 0 ELSE Head(s) + SumSeq(Tail(s))

\* The next() invocations made so far in a call.
NextCallsMade(cl) == SumSeq(cl.nextCalls)

Running(c) == calls[c].status = "running"

Settled(c) == calls[c].status \in {"resolved", "rejected"}

\* The call record with its innermost frame replaced.
WithTop(cl, frame) == [cl EXCEPT !.stack[Len(cl.stack)] = frame]

\* A result of next as a middleware may keep it in a variable of its own:
\* the value, with the history of where it came from.
Kept(v, origin) == [res |-> v, origin |-> origin]

\* Mutant of Settle: what a link throws propagates through the links that
\* await it and rejects call().
SettleUnwinds(cl, comp, origin) ==
    LET v    == nextFn(comp)
        rest == SubSeq(cl.stack, 1, Len(cl.stack) - 1)
        out  == CallOutcome(v)
    IN  IF rest = << >> \/ comp.threw
        THEN [cl EXCEPT !.stack = << >>, !.origin = origin, !.result = v,
                        !.status = out.status, !.value = out.value,
                        !.error = out.error]
        ELSE [cl EXCEPT !.stack = [rest EXCEPT ![Len(rest)].res = v,
                                               ![Len(rest)].seen = @ \cup {Kept(v, origin)}],
                        !.origin = origin]

\* The innermost link completed as `comp`: its next continuation returns
\* nextFn(comp) to the link that awaited it, or to call() itself, which then
\* ends.
Settle(cl, comp, origin) ==
    LET v    == nextFn(comp)
        rest == SubSeq(cl.stack, 1, Len(cl.stack) - 1)
        out  == CallOutcome(v)
    IN  IF rest = << >>
        THEN [cl EXCEPT !.stack = << >>, !.origin = origin, !.result = v,
                        !.status = out.status, !.value = out.value,
                        !.error = out.error]
        ELSE [cl EXCEPT !.stack = [rest EXCEPT ![Len(rest)].res = v,
                                               ![Len(rest)].seen = @ \cup {Kept(v, origin)}],
                        !.origin = origin]

\* A parse function that is user code: a method of a declared validator or
\* the validator itself.  The identity and the no-input function are the
\* code's own.
IsUserFn(fn) == fn.parser \notin {"identity", "noInputExpected"}

TopOf(cl) == cl.stack[Len(cl.stack)]

\* The terminal link invokes this.resolver({ ...opts, ctx, input }) and
\* awaits it.
InvokeResolver(cl, input) ==
    LET top == TopOf(cl)
    IN  WithTop([cl EXCEPT !.order = Append(@, Event(top.index, "resolver")),
                           !.args = ResolverArgs(cl.opts, top.ctx, input)],
                [top EXCEPT !.input = input, !.pc = "resolve"])

\* this.parseInputFn completed as `comp`: parseInput throws BAD_REQUEST and
\* the terminal link ends, or the resolver is invoked.
AfterParseInput(cl, comp) ==
    LET top == TopOf(cl)
        r   == parseInput(comp)
    IN  IF r.threw
        THEN Settle(cl, r,
                    Origin("inputThrow", top.index, comp.err, "undefined", "undefined"))
        ELSE InvokeResolver(cl, r.val)

\* The terminal link invokes this.parseInput(opts.rawInput), which invokes
\* this.parseInputFn, and awaits it (lines 118 and 150): the link goes on in
\* a later run also when the function is the code's own and has returned or
\* thrown at once.  What the code's own function threw is known, and not
\* yet delivered, from then on.
InvokeParseInput(cl, fn) ==
    LET top    == TopOf(cl)
        logged == [cl EXCEPT !.order = Append(@, Event(top.index, "parseInputFn"))]
        at     == WithTop(logged, [top EXCEPT !.pc = "parseInput"])
        own    == CHOOSE comp \in ParseFnOutcomes(fn, cl.opts.rawInput) : TRUE
    IN  IF ~IsUserFn(fn) /\ own.threw
        THEN [at EXCEPT !.origin =
                 Origin("inputThrow", top.index, own.err, "undefined", "undefined")]
        ELSE at

\* this.parseOutputFn completed as `comp`: parseOutput throws
\* INTERNAL_SERVER_ERROR, or the terminal link returns
\* { marker, ok: true, data, ctx }.
AfterParseOutput(cl, comp) ==
    LET top == TopOf(cl)
        r   == parseOutput(comp)
    IN  IF r.threw
        THEN Settle(cl, r,
                    Origin("outputThrow", top.index, comp.err, top.rawOutput, "undefined"))
        ELSE Settle(cl, Returned(OkResult(r.val, top.ctx)),
                    Origin("terminalOk", top.index, Undefined, top.rawOutput, r.val))

\* The terminal link invokes this.parseOutput(rawOutput), which invokes
\* this.parseOutputFn: user code is awaited; the identity completes at once.
InvokeParseOutput(cl, rawOutput, fn) ==
    LET top == TopOf(cl)
        at  == WithTop(cl, [top EXCEPT !.rawOutput = rawOutput, !.pc = "parseOutput"])
    IN  IF IsUserFn(fn)
        THEN [at EXCEPT !.order = Append(@, Event(top.index, "parseOutputFn"))]
        ELSE AfterParseOutput(at, CHOOSE comp \in ParseFnOutcomes(fn, rawOutput) : TRUE)

\* The resolver completed as `comp`: what it threw ends the terminal link,
\* or the output is parsed with fn.
AfterResolver(cl, comp, fn) ==
    IF comp.threw
    THEN Settle(cl, comp,
                Origin("resolverThrow", TopOf(cl).index, comp.err, "undefined", "undefined"))
    ELSE InvokeParseOutput(cl, comp.val, fn)

\* The link whose frame was just pushed starts to run, up to its first
\* await: a middleware is user code itself; the terminal link invokes the
\* input parse first.
EnterLink(cl, fn) ==
    LET top == TopOf(cl)
    IN  IF top.pc = "parseInput" THEN InvokeParseInput(cl, fn)
        ELSE IF top.pc = "resolve" THEN InvokeResolver(cl, top.input)
        ELSE cl

\* Mutant of OutputFn: the skip toggle is read at the time of the call.
OutputFnReadsToggle(p) ==
    IF skipEnv THEN IdentityFn ELSE procs[p].parseOutputFn

\* this.parseOutputFn of instance p, as the constructor stored it.
OutputFn(p) == procs[p].parseOutputFn

(***************************************************************************)
(* Actions.                                                                *)
(***************************************************************************)
\* The procedures obtained from createProcedure by at most n uses of
\* inheritMiddlewares, all constructed while the skip toggle is `skip`.
RECURSIVE Declared(_, _)
Declared(n, skip) ==
    IF n = 0
    THEN { createProcedure(o, skip).val : o \in CreateOptions }
    ELSE LET before == Declared(n - 1, skip)
         IN  before \cup { inheritMiddlewares(q, mws, skip).val :
                               q \in before, mws \in AdditionalLists }

\* History of a construction: the source instance (0 for createProcedure),
\* the list passed to inheritMiddlewares, the skip toggle at that time and
\* the instance as constructed.
Constructed(src, added, skip, made) ==
    [src |-> src, added |-> added, skip |-> skip, made |-> made]

\* One procedure has been declared, with the first middlewares of
\* DeclarationOrder; no call has been made.
Init ==
    /\ skipEnv \in BOOLEAN
    /\ \E q \in Declared(MaxMiddlewares, skipEnv) :
          /\ Len(q.middlewares) <= Len(DeclarationOrder)
          /\ q.middlewares = SubSeq(DeclarationOrder, 1, Len(q.middlewares))
          /\ procs = << q >>
          /\ derived = << Constructed(0, << >>, skipEnv, q) >>
    /\ failed = << >>
    /\ calls = [c \in {1} |-> IdleCall]

\* createProcedure has run once; no call has been made.
InitCompose ==
    /\ skipEnv \in BOOLEAN
    /\ \E o \in CreateOptions :
          /\ procs = << createProcedure(o, skipEnv).val >>
          /\ derived = << Constructed(0, << >>, skipEnv, procs[1]) >>
    /\ failed = << >>
    /\ calls = [c \in {1} |-> IdleCall]

\* No procedure has been constructed.
InitConstruct ==
    /\ skipEnv \in BOOLEAN
    /\ procs = << >>
    /\ derived = << >>
    /\ failed = << >>
    /\ calls = [c \in {1} |-> IdleCall]

\* createProcedure(o): the instance is kept, or the error thrown is recorded.
CreateProcedure(o) ==
    /\ Len(procs) + Len(failed) < MaxConstructions
    /\ LET made == createProcedure(o, skipEnv)
       IN  IF made.threw
           THEN /\ failed' = Append(failed, [opts |-> o, skip |-> skipEnv,
                                             error |-> made.err])
                /\ UNCHANGED << procs, derived >>
           ELSE /\ procs' = Append(procs, made.val)
                /\ derived' = Append(derived, Constructed(0, << >>, skipEnv, made.val))
                /\ UNCHANGED failed
    /\ UNCHANGED << skipEnv, calls >>

\* A procedure without middleware, and one derived from it with [A], have
\* been constructed with the skip toggle off; neither of the two calls has
\* been made.
InitConcurrent ==
    /\ skipEnv = FALSE
    /\ \E o \in CreateOptions :
          LET base == createProcedure(o, skipEnv).val
              with == inheritMiddlewares(base, << "A" >>, skipEnv).val
          IN  /\ procs = << base, with >>
              /\ derived = << Constructed(0, << >>, skipEnv, base),
                              Constructed(1, << "A" >>, skipEnv, with) >>
    /\ failed = << >>
    /\ calls = [c \in DOMAIN CallerOpts |-> IdleCall]

\* The process-wide toggle changes.
SetSkipEnv ==
    /\ \A c \in DOMAIN calls : ~Settled(c)
    /\ skipEnv' = ~skipEnv
    /\ UNCHANGED << procs, derived, failed, calls >>

\* procs[p].inheritMiddlewares(mws)
InheritMiddlewares(p, mws) ==
    /\ \A c \in DOMAIN calls : ~Settled(c)
    /\ Len(procs) < MaxProcedures
    /\ LET made == inheritMiddlewares(procs[p], mws, skipEnv)
       IN  /\ ~made.threw
           /\ procs' = Append(procs, made.val)
           /\ derived' = Append(derived, Constructed(p, mws, skipEnv, made.val))
    /\ UNCHANGED << skipEnv, failed, calls >>

\* Mutant of Call: the terminal link is pushed onto the stored list instead
\* of being appended to a copy.
CallPushesTerminal(c, p, opts) ==
    /\ calls[c].status = "idle"
    /\ LET links == middlewaresWithResolver(procs[p])
       IN  /\ calls' = [calls EXCEPT ![c] =
                 EnterLink(
                   [IdleCall EXCEPT
                      !.status = "running", !.proc = p, !.opts = opts, !.links = links,
                      !.stack = << Frame(1, NextCtx(NoNextOpts, opts), links) >>,
                      !.order = << Event(1, links[1]) >>,
                      !.nextCalls = [i \in DOMAIN links |-> 0]],
                   procs[p].parseInputFn)]
           /\ procs' = [procs EXCEPT ![p].middlewares = links]
    /\ UNCHANGED << skipEnv, derived, failed >>

\* procs[p].call(opts): nextFns[0]() invokes the first link, which runs up
\* to its first await.
Call(c, p, opts) ==
    /\ calls[c].status = "idle"
    /\ LET links == middlewaresWithResolver(procs[p])
       IN  calls' = [calls EXCEPT ![c] =
             EnterLink(
               [IdleCall EXCEPT
                  !.status = "running", !.proc = p, !.opts = opts, !.links = links,
                  !.stack = << Frame(1, NextCtx(NoNextOpts, opts), links) >>,
                  !.order = << Event(1, links[1]) >>,
                  !.nextCalls = [i \in DOMAIN links |-> 0]],
               procs[p].parseInputFn)]
    /\ UNCHANGED << skipEnv, procs, derived, failed >>

\* Mutant of MwNext: the continuation does not await the link it starts: it
\* returns at once, with the failure made of a result it does not have.
MwNextNotAwaited(c, nextOpts) ==
    /\ Running(c)
    /\ Top(c).pc = "run"
    /\ NextCallsMade(calls[c]) < MaxNextCalls
    /\ LET cl  == calls[c]
           top == Top(c)
           i   == NextIndex(top.index)
       IN  /\ i \in DOMAIN cl.links
           /\ calls' = [calls EXCEPT ![c] =
                EnterLink(
                  [cl EXCEPT
                     !.stack = Append(
                         [cl.stack EXCEPT ![Len(cl.stack)] =
                             [top EXCEPT !.nextOpts = nextOpts,
                                         !.res = ErrResult(getErrorFromUnknown(Undefined))]],
                         Frame(i, NextCtx(nextOpts, cl.opts), cl.links)),
                     !.order = Append(@, Event(i, cl.links[i])),
                     !.nextCalls[top.index] = @ + 1,
                     !.origin = NoOrigin],
                  procs[cl.proc].parseInputFn)]
    /\ UNCHANGED << skipEnv, procs, derived, failed >>

\* The running middleware invokes next(nextOpts): the next link starts and
\* runs up to its first await.
MwNext(c, nextOpts) ==
    /\ Running(c)
    /\ Top(c).pc = "run"
    /\ NextCallsMade(calls[c]) < MaxNextCalls
    /\ LET cl  == calls[c]
           top == Top(c)
           i   == NextIndex(top.index)
       IN  /\ i \in DOMAIN cl.links
           /\ calls' = [calls EXCEPT ![c] =
                EnterLink(
                  [cl EXCEPT
                     !.stack = Append(
                         [cl.stack EXCEPT ![Len(cl.stack)] =
                             [top EXCEPT !.nextOpts = nextOpts]],
                         Frame(i, NextCtx(nextOpts, cl.opts), cl.links)),
                     !.order = Append(@, Event(i, cl.links[i])),
                     !.nextCalls[top.index] = @ + 1,
                     !.origin = NoOrigin],
                  procs[cl.proc].parseInputFn)]
    /\ UNCHANGED << skipEnv, procs, derived, failed >>

\* The running middleware returns the result its last next() gave it.
MwReturnNext(c) ==
    /\ Running(c)
    /\ Top(c).pc = "run"
    /\ Top(c).res # NoValue
    /\ calls' = [calls EXCEPT ![c] =
                   Settle(calls[c], Returned(Top(c).res), calls[c].origin)]
    /\ UNCHANGED << skipEnv, procs, derived, failed >>

\* The running middleware returns the result an earlier next() gave it,
\* having invoked next again since.
MwReturnEarlier(c) ==
    /\ Running(c)
    /\ Top(c).pc = "run"
    /\ \E e \in Top(c).seen \ {Kept(Top(c).res, calls[c].origin)} :
          calls' = [calls EXCEPT ![c] =
                      Settle(calls[c], Returned(e.res), [e.origin EXCEPT !.kept = TRUE])]
    /\ UNCHANGED << skipEnv, procs, derived, failed >>

\* The running middleware returns a value of its own.
MwReturnOwn(c, v) ==
    /\ Running(c)
    /\ Top(c).pc = "run"
    /\ calls' = [calls EXCEPT ![c] =
                   Settle(calls[c], Returned(v),
                          Origin("mwOwn", Top(c).index, Undefined, "undefined", "undefined"))]
    /\ UNCHANGED << skipEnv, procs, derived, failed >>

\* The running middleware throws.
MwThrow(c, e) ==
    /\ Running(c)
    /\ Top(c).pc = "run"
    /\ calls' = [calls EXCEPT ![c] =
                   Settle(calls[c], Threw(e),
                          Origin("mwThrow", Top(c).index, e, "undefined", "undefined"))]
    /\ UNCHANGED << skipEnv, procs, derived, failed >>

\* Terminal link, const input = await this.parseInput(opts.rawInput): the
\* input parse function that was invoked completes (the code's own in the
\* one way it can), and the link goes on.
TermParseInput(c) ==
    /\ Running(c)
    /\ Top(c).pc = "parseInput"
    /\ LET cl == calls[c]
       IN  \E comp \in ParseFnOutcomes(procs[cl.proc].parseInputFn, cl.opts.rawInput) :
             calls' = [calls EXCEPT ![c] = AfterParseInput(cl, comp)]
    /\ UNCHANGED << skipEnv, procs, derived, failed >>

\* Terminal link, const rawOutput = await this.resolver({ ...opts, ctx, input }):
\* the resolver that was invoked completes.
TermResolve(c) ==
    /\ Running(c)
    /\ Top(c).pc = "resolve"
    /\ LET cl == calls[c]
       IN  \E comp \in ResolverOutcomes :
             calls' = [calls EXCEPT ![c] = AfterResolver(cl, comp, OutputFn(cl.proc))]
    /\ UNCHANGED << skipEnv, procs, derived, failed >>

\* Terminal link, const data = await this.parseOutput(rawOutput): the output
\* validator that was invoked completes, and the link returns
\* { marker, ok: true, data, ctx }.
TermParseOutput(c) ==
    /\ Running(c)
    /\ Top(c).pc = "parseOutput"
    /\ LET cl == calls[c]
       IN  \E comp \in ParseFnOutcomes(OutputFn(cl.proc), Top(c).rawOutput) :
             calls' = [calls EXCEPT ![c] = AfterParseOutput(cl, comp)]
    /\ UNCHANGED << skipEnv, procs, derived, failed >>

\* The caller of a settled call() has taken its outcome.
Consume(c) ==
    /\ Settled(c)
    /\ calls' = [calls EXCEPT ![c] = IdleCall]
    /\ UNCHANGED << skipEnv, procs, derived, failed >>

Next ==
    \/ SetSkipEnv
    \/ \E c \in DOMAIN calls, p \in DOMAIN procs, opts \in CallOptions : Call(c, p, opts)
    \/ \E c \in DOMAIN calls, nextOpts \in NextOptsChoices : MwNext(c, nextOpts)
    \/ \E c \in DOMAIN calls : MwReturnNext(c)
    \/ \E c \in DOMAIN calls : MwReturnEarlier(c)
    \/ \E c \in DOMAIN calls, v \in OwnValues : MwReturnOwn(c, v)
    \/ \E c \in DOMAIN calls, e \in ThrownValues : MwThrow(c, e)
    \/ \E c \in DOMAIN calls : TermParseInput(c)
    \/ \E c \in DOMAIN calls : TermResolve(c)
    \/ \E c \in DOMAIN calls : TermParseOutput(c)
    \/ \E c \in DOMAIN calls : Consume(c)

Spec == Init /\ [][Next]_vars

\* The calls made in the composition specification.
ComposeCallOptions == { o \in CallOptions : o.rawInput = "raw1" }

\* Composition: procedures are derived while calls are made; the middlewares
\* are those that invoke next once, pass no override and return its result.
NextCompose ==
    \/ SetSkipEnv
    \/ \E p \in DOMAIN procs, mws \in AdditionalLists : InheritMiddlewares(p, mws)
    \/ \E c \in DOMAIN calls, p \in DOMAIN procs, opts \in ComposeCallOptions :
          Call(c, p, opts)
    \/ \E c \in DOMAIN calls :
          Running(c) /\ Top(c).res = NoValue /\ MwNext(c, NoNextOpts)
    \/ \E c \in DOMAIN calls : MwReturnNext(c)
    \/ \E c \in DOMAIN calls : TermParseInput(c)
    \/ \E c \in DOMAIN calls : TermResolve(c)
    \/ \E c \in DOMAIN calls : TermParseOutput(c)
    \/ \E c \in DOMAIN calls : Consume(c)

SpecCompose == InitCompose /\ [][NextCompose]_vars

\* Two calls run side by side: any step of either may come next.  A
\* middleware invokes next at most once.
NextConcurrent ==
    \/ \E c \in DOMAIN calls, p \in DOMAIN procs : Call(c, p, CallerOpts[c])
    \/ \E c \in DOMAIN calls, nextOpts \in NextOptsChoices :
          Running(c) /\ Top(c).res = NoValue /\ MwNext(c, nextOpts)
    \/ \E c \in DOMAIN calls : MwReturnNext(c)
    \/ \E c \in DOMAIN calls, v \in OwnValues : MwReturnOwn(c, v)
    \/ \E c \in DOMAIN calls, e \in ThrownValues : MwThrow(c, e)
    \/ \E c \in DOMAIN calls : TermParseInput(c)
    \/ \E c \in DOMAIN calls : TermResolve(c)
    \/ \E c \in DOMAIN calls : TermParseOutput(c)

SpecConcurrent == InitConcurrent /\ [][NextConcurrent]_vars

\* Construction only: createProcedure is applied to options of every shape.
NextConstruct ==
    \/ SetSkipEnv
    \/ \E o \in AnyCreateOptions : CreateProcedure(o)

SpecConstruct == InitConstruct /\ [][NextConstruct]_vars

(***************************************************************************)
(* Helpers for the properties.                                             *)
(***************************************************************************)
RECURSIVE CountIn(_, _)
CountIn(s, x) ==
    IF s = << >> THEN 0
    ELSE (IF Head(s) = x THEN 1 ELSE 0) + CountIn(Tail(s), x)

IsLinkEvent(cl, e) == e.name = cl.links[e.link]

\* The indices of the links invoked so far in a call, in order of invocation.
LinkInvocations(cl) ==
    LET evs == SelectSeq(cl.order, LAMBDA e : IsLinkEvent(cl, e))
    IN  [k \in DOMAIN evs |-> evs[k].link]

\* The user functions (validators, resolver) invoked so far, in order.
UserFnCalls(cl) ==
    LET evs == SelectSeq(cl.order, LAMBDA e : ~IsLinkEvent(cl, e))
    IN  [k \in DOMAIN evs |-> evs[k].name]

\* The order in which the claimed precedence looks for a method.
Precedence == << "parseAsync", "parse", "validateSync", "create" >>

\* A validator some parse function can be found for.
Supported(v) == v.callable \/ v.caps # {}

\* The validator itself when callable, else the first method in Precedence
\* the validator has.
FirstPresent(v) ==
    IF v.callable THEN "self"
    ELSE Precedence[CHOOSE i \in DOMAIN Precedence :
                        /\ Precedence[i] \in v.caps
                        /\ \A j \in 1 .. i - 1 : Precedence[j] \notin v.caps]

\* The outcome of a call as a function of its own history: of what the
\* link that produced the value delivered last did.
SoloOutcome(cl) ==
    LET o == cl.origin
    IN  CASE o.kind = "terminalOk" -> Resolved(o.data)
          [] o.kind = "inputThrow" ->
               Rejected(TRPCError("BAD_REQUEST", "Input validation failed", o.thrown))
          [] o.kind = "outputThrow" ->
               Rejected(TRPCError("INTERNAL_SERVER_ERROR", "Output validation failed",
                                  o.thrown))
          [] o.kind \in {"mwThrow", "resolverThrow"} ->
               Rejected(getErrorFromUnknown(o.thrown))
          [] OTHER -> CallOutcome(cl.result)

\* The code's own input parse function has thrown and the terminal link,
\* which awaits it, has not gone on yet.
PendingThrow(cl) ==
    /\ cl.status = "running"
    /\ cl.stack[Len(cl.stack)].pc = "parseInput"
    /\ cl.origin.kind = "inputThrow"

\* The kinds of history that end in a throw inside a link.
ThrowKinds == {"mwThrow", "resolverThrow", "inputThrow", "outputThrow"}

Started == { c \in DOMAIN calls : calls[c].status # "idle" }

\* The value the last completed link delivered: to the link that awaited
\* it, or to call() itself.
LastDelivered(cl) ==
    IF cl.stack = << >> THEN cl.result ELSE cl.stack[Len(cl.stack)].res

Done == { c \in DOMAIN calls : Settled(c) }

(***************************************************************************)
(* C1.  The links of a call are the declared middlewares in declaration    *)
(* order followed by the synthetic terminal link.  The first link invoked  *)
(* is the first of the list, every other invocation is of the successor of *)
(* a link that invoked next, and link i+1 is invoked exactly as often as   *)
(* link i invoked next: with [A, B] and next used at most once per link    *)
(* the invocations are A, B, terminal in that order, and when B does not   *)
(* invoke next the terminal link and the resolver never run.               *)
(***************************************************************************)
C1_MiddlewareOrder ==
    \A c \in Started :
        LET cl  == calls[c]
            n   == Len(cl.links)
            inv == LinkInvocations(cl)
        IN  /\ cl.links = procs[cl.proc].middlewares \o << Terminal >>
            /\ inv # << >> /\ inv[1] = 1 /\ CountIn(inv, 1) = 1
            /\ \A k \in 2 .. Len(inv) : inv[k] >= 2 /\ inv[k] <= inv[k - 1] + 1
            /\ \A i \in 1 .. n - 1 : CountIn(inv, i + 1) = cl.nextCalls[i]
            /\ (\A i \in 1 .. n : cl.nextCalls[i] <= 1)
                   => \A k \in DOMAIN inv : inv[k] = k
            /\ CountIn(UserFnCalls(cl), "resolver") <= CountIn(inv, n)

\* A settled call on a procedure declaring [A, B] in which A, B and the
\* terminal link ran in that order and the resolver was invoked.
C1_Witness ==
    \E c \in Done :
        /\ procs[calls[c].proc].middlewares = << "A", "B" >>
        /\ LinkInvocations(calls[c]) = << 1, 2, 3 >>
        /\ CountIn(UserFnCalls(calls[c]), "resolver") = 1

(***************************************************************************)
(* C2.  Every settled call() resolved with the validated output of the     *)
(* terminal link or rejected with a classified error of an enumerated      *)
(* kind, whatever the middlewares returned.                                *)
(***************************************************************************)
C2_ClassifiedOutcome ==
    \A c \in Done :
        LET cl == calls[c]
        IN  /\ cl.status = "resolved"
                 => cl.origin.kind = "terminalOk" /\ cl.value = cl.origin.data
            /\ cl.status = "rejected"
                 => IsTRPCError(cl.error) /\ cl.error.code \in ErrorCodes

(***************************************************************************)
(* C3.  When a middleware or the resolver throws a classified error and    *)
(* every link above it returns the result of next unchanged, call()        *)
(* rejects with that very error: same kind, message and cause.             *)
(***************************************************************************)
C3_ErrorIdentity ==
    \A c \in Started :
        LET cl == calls[c]
        IN  (cl.origin.kind \in {"mwThrow", "resolverThrow"}
             /\ IsTRPCError(cl.origin.thrown))
            => /\ LastDelivered(cl) = ErrResult(cl.origin.thrown)
               /\ Settled(c) => cl.status = "rejected" /\ cl.error = cl.origin.thrown

\* The resolver threw FORBIDDEN below two middlewares that passed the result
\* through, and call() rejected with FORBIDDEN.
C3_Witness ==
    \E c \in Done :
        /\ calls[c].origin.kind = "resolverThrow"
        /\ calls[c].origin.at = 3
        /\ calls[c].origin.thrown.trpc
        /\ calls[c].error.trpc /\ calls[c].error.code = "FORBIDDEN"

(***************************************************************************)
(* C4.  On a procedure created without an input validator: with rawInput   *)
(* undefined or null the input parse never fails, every run of the         *)
(* terminal link invokes the resolver, with input undefined, and the       *)
(* terminal link's result makes call() resolve; with any other rawInput    *)
(* the resolver is never invoked, and call() rejects with BAD_REQUEST      *)
(* (always so when the procedure has no middleware).                       *)
(***************************************************************************)
C4_NoInputValidator ==
    \A c \in Started :
        LET cl    == calls[c]
            fns   == UserFnCalls(cl)
            empty == cl.opts.rawInput \in {"undefined", "null"}
            \* the terminal link awaits the input parse
            atParse == IF Running(c) /\ Top(c).pc = "parseInput" THEN 1 ELSE 0
        IN  procs[cl.proc].inputParser = NoInputParser =>
              /\ empty =>
                   /\ cl.origin.kind # "inputThrow"
                   /\ CountIn(fns, "parseInputFn") = CountIn(fns, "resolver") + atParse
                   /\ cl.args # NoArgs => cl.args.input = "undefined"
                   /\ (Settled(c) /\ cl.origin.kind = "terminalOk")
                         => cl.status = "resolved" /\ cl.value = cl.origin.data
              /\ ~empty =>
                   /\ CountIn(fns, "resolver") = 0 /\ cl.args = NoArgs
                   /\ cl.origin.kind # "terminalOk"
                   /\ (cl.origin.kind = "inputThrow" /\ ~PendingThrow(cl))
                         => /\ OkOf(LastDelivered(cl)) = FALSE
                            /\ ErrorOf(LastDelivered(cl)).code = "BAD_REQUEST"
                   /\ (Settled(c) /\ cl.origin.kind = "inputThrow")
                         => cl.status = "rejected" /\ cl.error.code = "BAD_REQUEST"
                   /\ (Settled(c) /\ Len(cl.links) = 1)
                         => cl.status = "rejected" /\ cl.error.code = "BAD_REQUEST"

\* A call with rawInput null on a procedure without input validator whose
\* resolver was invoked with input undefined and which resolved.
C4_Witness ==
    \E c \in Done :
        /\ procs[calls[c].proc].inputParser = NoInputParser
        /\ calls[c].opts.rawInput = "null"
        /\ calls[c].args # NoArgs /\ calls[c].args.input = "undefined"
        /\ calls[c].status = "resolved"

(***************************************************************************)
(* C5.  When the input validator throws v, the terminal link fails with    *)
(* BAD_REQUEST "Input validation failed" whose cause is v, whatever v is;  *)
(* neither the resolver nor the output validator is invoked after that     *)
(* input parse; and when the links above return the result of next,        *)
(* call() rejects with that BAD_REQUEST error.                             *)
(***************************************************************************)
C5_InputFailure ==
    \A c \in Started :
        LET cl  == calls[c]
            fns == UserFnCalls(cl)
            bad == TRPCError("BAD_REQUEST", "Input validation failed", cl.origin.thrown)
        IN  (cl.origin.kind = "inputThrow" /\ ~PendingThrow(cl)) =>
              /\ LastDelivered(cl) = ErrResult(bad)
              /\ ~cl.origin.kept => fns # << >> /\ fns[Len(fns)] = "parseInputFn"
              /\ Settled(c) => cl.status = "rejected" /\ cl.error = bad

\* The input validator threw a FORBIDDEN error below a middleware that
\* passed the result through; call() rejected with BAD_REQUEST caused by it.
C5_Witness ==
    \E c \in Done :
        /\ calls[c].origin.kind = "inputThrow"
        /\ calls[c].origin.at >= 2
        /\ calls[c].origin.thrown.trpc
        /\ calls[c].error.code = "BAD_REQUEST"
        /\ calls[c].error.cause = calls[c].origin.thrown

(***************************************************************************)
(* C6.  The resolver receives the parsed input as input, and nothing in    *)
(* its argument bundle carries the unparsed rawInput.                      *)
(***************************************************************************)
C6_ResolverNeverSeesRaw ==
    \A c \in Started :
        LET cl == calls[c]
        IN  cl.args # NoArgs =>
              /\ (Running(c) /\ Top(c).pc \in {"resolve", "parseOutput"})
                    => cl.args.input = Top(c).input
              /\ "rawInput" \notin DOMAIN cl.args

(***************************************************************************)
(* C7.  A procedure validates its output exactly when an output validator  *)
(* is declared and the skip toggle was off when it was constructed.  When  *)
(* the output validator throws v, the terminal link fails with             *)
(* INTERNAL_SERVER_ERROR "Output validation failed" whose cause is v, and  *)
(* call() rejects with it when the links above return the result of next.  *)
(* When the procedure does not validate its output, the output validator   *)
(* is never invoked and the terminal link's data, which call() resolves    *)
(* with, is the resolver's output unchanged.                               *)
(***************************************************************************)
C7_OutputValidation ==
    /\ \A p \in DOMAIN procs :
          procs[p].parseOutputFn = IdentityFn
              <=> (procs[p].outputParser = NoValidator \/ derived[p].skip)
    /\ \A c \in Started :
          LET cl  == calls[c]
              ise == TRPCError("INTERNAL_SERVER_ERROR", "Output validation failed",
                               cl.origin.thrown)
          IN  /\ cl.origin.kind = "outputThrow" =>
                   /\ LastDelivered(cl) = ErrResult(ise)
                   /\ Settled(c) => cl.status = "rejected" /\ cl.error = ise
              /\ procs[cl.proc].parseOutputFn = IdentityFn =>
                   /\ CountIn(UserFnCalls(cl), "parseOutputFn") = 0
                   /\ cl.origin.kind # "outputThrow"
                   /\ cl.origin.kind = "terminalOk" =>
                        /\ DataOf(LastDelivered(cl)) = cl.origin.raw
                        /\ Settled(c) => cl.status = "resolved"
                                         /\ cl.value = cl.origin.raw

\* The output validator threw "boom" and call() rejected with
\* INTERNAL_SERVER_ERROR caused by it.
C7_Witness ==
    \E c \in Done :
        /\ calls[c].origin.kind = "outputThrow"
        /\ calls[c].origin.thrown = Plain("boom")
        /\ calls[c].error.code = "INTERNAL_SERVER_ERROR"
        /\ calls[c].error.cause = Plain("boom")

(***************************************************************************)
(* C8.  Every instance is as it was constructed (no call and no derivation *)
(* changes an existing instance).  An instance made by inheritMiddlewares  *)
(* has the added list followed by the list of its source, and the          *)
(* resolver, input parser and output parser of its source.  A call runs    *)
(* the list of its own instance followed by the terminal link: when every  *)
(* middleware invokes next once, the links run are exactly that list, in   *)
(* order, then the resolver.                                               *)
(***************************************************************************)
C8_Composition ==
    /\ \A p \in DOMAIN procs :
          /\ procs[p] = derived[p].made
          /\ derived[p].src # 0 =>
               LET src == procs[derived[p].src]
               IN  /\ procs[p].middlewares = derived[p].added \o src.middlewares
                   /\ procs[p].resolver = src.resolver
                   /\ procs[p].inputParser = src.inputParser
                   /\ procs[p].outputParser = src.outputParser
    /\ \A c \in Started :
          LET cl  == calls[c]
              inv == LinkInvocations(cl)
              n   == Len(cl.links)
          IN  /\ cl.links = procs[cl.proc].middlewares \o << Terminal >>
              /\ (\A i \in 1 .. n - 1 : cl.nextCalls[i] = 1) =>
                   /\ [k \in DOMAIN inv |-> cl.links[inv[k]]]
                        = procs[cl.proc].middlewares \o << Terminal >>
                   /\ Settled(c) => CountIn(UserFnCalls(cl), "parseInputFn") = 1

\* From a procedure declaring [B] one was derived with [A]; a later call on
\* the original ran B and the terminal link only.
C8_Witness ==
    \E c \in Done, p \in DOMAIN procs :
        /\ derived[p].src = calls[c].proc
        /\ derived[p].added = << "A" >>
        /\ procs[p].middlewares = << "A", "B" >>
        /\ procs[calls[c].proc].middlewares = << "B" >>
        /\ LinkInvocations(calls[c]) = << 1, 2 >>
        /\ CountIn(UserFnCalls(calls[c]), "parseInputFn") = 1

(***************************************************************************)
(* C9.  The first link runs with the context of the call.  Every other     *)
(* link runs with the ctx of the override its caller passed to next, or,   *)
(* when the caller passed none, with the context of the call, whatever     *)
(* context the caller itself ran with; the resolver is given the context   *)
(* of the terminal link.                                                   *)
(***************************************************************************)
C9_ContextPerHop ==
    \A c \in DOMAIN calls :
        Running(c) =>
          LET cl == calls[c]
              st == cl.stack
          IN  /\ st[1].ctx = cl.opts.ctx
              /\ \A k \in 2 .. Len(st) :
                    st[k].ctx = IF st[k - 1].nextOpts.given
                                THEN st[k - 1].nextOpts.ctx
                                ELSE cl.opts.ctx
              /\ Top(c).pc \in {"resolve", "parseOutput"} => cl.args.ctx = Top(c).ctx

\* A passed { ctx: "ctx1" } to next, B ran with "ctx1" and passed nothing,
\* and the resolver was invoked with the context of the call.
C9_Witness ==
    \E c \in DOMAIN calls :
        /\ Running(c)
        /\ Len(calls[c].stack) = 3
        /\ calls[c].stack[1].nextOpts = Override("ctx1")
        /\ calls[c].stack[2].ctx = "ctx1"
        /\ calls[c].stack[2].nextOpts = NoNextOpts
        /\ Top(c).pc = "resolve"
        /\ calls[c].args.ctx = calls[c].opts.ctx

(***************************************************************************)
(* C10.  When the value the first link returns is falsy (a middleware      *)
(* returned without returning the result of next), call() rejects with     *)
(* INTERNAL_SERVER_ERROR and the message about a forgotten return next().  *)
(***************************************************************************)
C10_NoResult ==
    \A c \in Done :
        ~Truthy(calls[c].result) =>
            /\ calls[c].origin.kind = "mwOwn"
            /\ calls[c].status = "rejected"
            /\ calls[c].error =
                 TRPCError("INTERNAL_SERVER_ERROR", NoResultMessage, Undefined)

\* The first middleware invoked next and then returned undefined.
C10_Witness ==
    \E c \in Done :
        /\ calls[c].nextCalls[1] = 1
        /\ calls[c].result = [t |-> "undefined"]
        /\ calls[c].error.code = "INTERNAL_SERVER_ERROR"

(***************************************************************************)
(* C11.  The parse function of a validator is the validator itself when it *)
(* is callable, else the first method it has in the order parseAsync,      *)
(* parse, validateSync, create, bound to that validator; construction      *)
(* succeeds for every validator that is callable or has one of the         *)
(* methods.                                                                *)
(***************************************************************************)
C11_ParseFnPrecedence ==
    /\ \A p \in DOMAIN procs :
          LET q == procs[p]
          IN  /\ q.parseInputFn =
                   [parser |-> q.inputParser.id, via |-> FirstPresent(q.inputParser)]
              /\ q.parseOutputFn # IdentityFn =>
                   q.parseOutputFn =
                     [parser |-> q.outputParser.id, via |-> FirstPresent(q.outputParser)]
    /\ \A k \in DOMAIN failed :
          LET o == failed[k].opts
          IN  \/ (o.input # NoValidator /\ ~Supported(o.input))
              \/ (o.output # NoValidator /\ ~Supported(o.output))

\* A procedure whose input validator is not callable and has parse,
\* parseAsync and create: its parse function is parseAsync bound to it.
C11_Witness ==
    \E p \in DOMAIN procs :
        /\ ~procs[p].inputParser.callable
        /\ procs[p].inputParser.caps = {"parse", "parseAsync", "create"}
        /\ procs[p].parseInputFn = [parser |-> "in", via |-> "parseAsync"]

(***************************************************************************)
(* C12.  A construction with a validator that is not callable and has none *)
(* of the methods fails, no instance is made of it, and the error thrown   *)
(* is a classified error of kind INTERNAL_SERVER_ERROR.                    *)
(***************************************************************************)
C12_ConstructionFailure ==
    /\ \A k \in DOMAIN failed :
          /\ IsTRPCError(failed[k].error)
          /\ failed[k].error.code = "INTERNAL_SERVER_ERROR"
    /\ \A p \in DOMAIN procs :
          /\ Supported(procs[p].inputParser)
          /\ procs[p].outputParser # NoValidator => Supported(procs[p].outputParser)

(***************************************************************************)
(* C13.  When a middleware or the resolver throws a value v that is not a  *)
(* classified error, its next continuation delivers a classified error of  *)
(* kind INTERNAL_SERVER_ERROR whose cause is v itself; the links above     *)
(* that return the result of next hand on that same error, and call()      *)
(* rejects with it: its cause is still v, not a wrapper of v.              *)
(***************************************************************************)
C13_UnclassifiedThrown ==
    \A c \in Started :
        LET cl == calls[c]
            d  == LastDelivered(cl)
        IN  (cl.origin.kind \in {"mwThrow", "resolverThrow"}
             /\ ~IsTRPCError(cl.origin.thrown))
            => /\ d.t = "result" /\ ~OkOf(d)
               /\ IsTRPCError(ErrorOf(d))
               /\ ErrorOf(d).code = "INTERNAL_SERVER_ERROR"
               /\ ErrorOf(d).cause = cl.origin.thrown
               /\ Settled(c) => cl.status = "rejected" /\ cl.error = ErrorOf(d)

\* The resolver threw the string "boom" below two middlewares that returned
\* the result of next; call() rejected with INTERNAL_SERVER_ERROR caused by
\* "boom".
C13_Witness ==
    \E c \in Done :
        /\ calls[c].origin.kind = "resolverThrow"
        /\ calls[c].origin.at = 3
        /\ calls[c].origin.thrown = Plain("boom")
        /\ calls[c].status = "rejected"
        /\ calls[c].error.code = "INTERNAL_SERVER_ERROR"
        /\ calls[c].error.cause = Plain("boom")

(***************************************************************************)
(* C14.  Two calls run side by side, on the same procedure or on a         *)
(* procedure and one derived from it, with different ctx, rawInput, path   *)
(* and type.  In every interleaving of their steps each call runs the      *)
(* links of its own procedure; each link runs with the context of its own  *)
(* call or the override its own caller passed; the resolver is given the   *)
(* rawInput, path and type of its own call; and the outcome of each call   *)
(* is the outcome its own history has when the call runs alone.            *)
(***************************************************************************)
C14_NoInterference ==
    \A c \in Started :
        LET cl   == calls[c]
            own  == CallerOpts[c]
            st   == cl.stack
        IN  /\ cl.opts = own
            /\ cl.links = procs[cl.proc].middlewares \o << Terminal >>
            /\ st # << >> => st[1].ctx = own.ctx
            /\ \A k \in 2 .. Len(st) :
                  st[k].ctx = IF st[k - 1].nextOpts.given
                              THEN st[k - 1].nextOpts.ctx
                              ELSE own.ctx
            /\ cl.args # NoArgs =>
                  /\ cl.args.rawInput = own.rawInput
                  /\ cl.args.path = own.path
                  /\ cl.args.type = own.type
                  /\ cl.args.ctx \in {own.ctx} \cup OverrideCtxs
            /\ Settled(c) =>
                  [status |-> cl.status, value |-> cl.value, error |-> cl.error]
                    = SoloOutcome(cl)

\* Both calls are in their terminal link at the same time, on the same
\* procedure, each with its resolver invoked with its own arguments.
C14_Witness ==
    /\ Running(1) /\ Running(2)
    /\ calls[1].proc = 2 /\ calls[2].proc = 2
    /\ Top(1).pc = "resolve" /\ Top(2).pc = "resolve"
    /\ calls[1].args.ctx = "ctxA" /\ calls[1].args.path = "a.get"
    /\ calls[2].args.ctx = "ctxB" /\ calls[2].args.path = "b.set"

(***************************************************************************)
(* C15 as stated.  The next link of the chain never starts before the link *)
(* before it has resolved or rejected: no link is still in progress when   *)
(* its successor has been started.                                         *)
(***************************************************************************)
C15_NextLinkAfterSettle ==
    \A c \in Started :
        LET st == calls[c].stack
        IN  \A k \in DOMAIN st :
              ~ \E j \in DOMAIN st : st[j].index = st[k].index + 1

(***************************************************************************)
(* C15 amended.  Within one call nothing runs in parallel, but the links   *)
(* are nested, not consecutive: link i+1 is started by link i invoking     *)
(* next, while link i is in progress and (awaiting that next) suspended    *)
(* until link i+1 has resolved or rejected.  So the links in progress are  *)
(* links 1 .. k for some k, each below the last suspended in a next it     *)
(* invoked, and only link k executes.  Inside the terminal link the steps  *)
(* are consecutive: the resolver starts only after the input parse         *)
(* resolved, the output parse only after the resolver resolved.            *)
(***************************************************************************)
C15_Sequential ==
    \A c \in Started :
        LET cl  == calls[c]
            st  == cl.stack
            fns == UserFnCalls(cl)
            inv == LinkInvocations(cl)
        IN  /\ \A k \in DOMAIN st : st[k].index = k
            /\ \A k \in 1 .. Len(st) - 1 :
                  /\ st[k].pc = "run"
                  /\ cl.nextCalls[k] >= 1
            /\ \A k \in 2 .. Len(inv) :
                  \E j \in 1 .. k - 1 : inv[j] = inv[k] - 1
            /\ \A k \in DOMAIN fns :
                  /\ fns[k] = "resolver" => k > 1 /\ fns[k - 1] = "parseInputFn"
                  /\ fns[k] = "parseOutputFn" => k > 1 /\ fns[k - 1] = "resolver"
            /\ (Running(c) /\ Top(c).pc = "parseInput")
                  => fns # << >> /\ fns[Len(fns)] = "parseInputFn"
            /\ (Running(c) /\ Top(c).pc = "resolve")
                  => fns # << >> /\ fns[Len(fns)] = "resolver"
            /\ (Running(c) /\ Top(c).pc = "parseOutput")
                  => fns # << >> /\ fns[Len(fns)] = "parseOutputFn"

\* A and B are suspended in next and the terminal link, started by B, has
\* parsed the input and invoked the resolver.
C15_Witness ==
    \E c \in DOMAIN calls :
        /\ Running(c)
        /\ Len(calls[c].stack) = 3
        /\ calls[c].links = << "A", "B", Terminal >>
        /\ Top(c).pc = "resolve"
        /\ UserFnCalls(calls[c]) = << "parseInputFn", "resolver" >>

(***************************************************************************)
(* C16.  Whether a procedure validates its output was decided when it was  *)
(* constructed: a run of its terminal link that gets past the resolver     *)
(* invokes the output validator exactly when a validator is declared and   *)
(* the skip toggle was off at the construction, whatever the toggle is     *)
(* when the call is made or while it runs.                                 *)
(***************************************************************************)
C16_SkipDecidedAtConstruction ==
    \A c \in Started :
        LET cl  == calls[c]
            fns == UserFnCalls(cl)
            validates == /\ procs[cl.proc].outputParser # NoValidator
                         /\ ~derived[cl.proc].skip
        IN  /\ (cl.origin.kind \in {"terminalOk", "outputThrow"} /\ ~cl.origin.kept) =>
                  /\ fns # << >>
                  /\ fns[Len(fns)] = (IF validates THEN "parseOutputFn" ELSE "resolver")
            /\ ~validates =>
                  /\ CountIn(fns, "parseOutputFn") = 0
                  /\ cl.origin.kind # "outputThrow"

\* The toggle was off when the procedure was constructed and is on when the
\* call settles: the output validator was invoked, threw, and the call
\* rejected with the output validation failure.
C16_Witness ==
    \E c \in Done :
        /\ skipEnv
        /\ ~derived[calls[c].proc].skip
        /\ calls[c].origin.kind = "outputThrow"
        /\ calls[c].error.message = "Output validation failed"

(***************************************************************************)
(* C17.  A next continuation never rejects.  In the step in which a link   *)
(* ends with a throw (of a middleware, the resolver or a validator), only  *)
(* that link ends: the continuation that ran it delivers                   *)
(* { ok: false, error } with a classified error to the middleware that     *)
(* awaited it, which is still running and free to return what it likes;    *)
(* call() settles only when the first link has ended, and its outcome is a *)
(* function of the value the first link returned.                          *)
(***************************************************************************)
C17_NextNeverRejects ==
    [][ \A c \in DOMAIN calls :
          LET a == calls[c]
              b == calls'[c]
              d == LastDelivered(b)
              \* a link ended with a throw in this step
              threw == /\ a.status = "running"
                       /\ b.origin.kind \in ThrowKinds
                       /\ ~PendingThrow(b)
                       /\ b.origin # a.origin \/ (PendingThrow(a) /\ b # a)
          IN  /\ threw =>
                    /\ Len(b.stack) = Len(a.stack) - 1
                    /\ d.t = "result" /\ ~OkOf(d) /\ IsTRPCError(ErrorOf(d))
                    /\ b.stack # << >> =>
                          /\ b.status = "running"
                          /\ b.stack[Len(b.stack)].pc = "run"
                          /\ b.stack[Len(b.stack)].res = d
                          /\ SubSeq(b.stack, 1, Len(b.stack) - 1)
                               = SubSeq(a.stack, 1, Len(b.stack) - 1)
              /\ b.status \in {"resolved", "rejected"} =>
                    /\ b.stack = << >>
                    /\ [status |-> b.status, value |-> b.value, error |-> b.error]
                         = CallOutcome(b.result)
      ]_vars

\* The resolver threw "boom"; the middleware B that awaited next holds
\* { ok: false, error } with the classified error and is still running, as
\* is A above it.
C17_Witness ==
    \E c \in DOMAIN calls :
        /\ Running(c)
        /\ Len(calls[c].stack) = 2
        /\ calls[c].origin.kind = "resolverThrow"
        /\ calls[c].origin.thrown = Plain("boom")
        /\ Top(c).pc = "run"
        /\ Top(c).res = ErrResult(TRPCError("INTERNAL_SERVER_ERROR",
                                            "Internal server error", Plain("boom")))

(***************************************************************************)
(* C18.  Onion order.  A link ends only when it is the innermost link in   *)
(* progress, so every link it started has ended before it; the next        *)
(* continuation a link awaits gives its value only in the step in which    *)
(* the link it started ends, which is a later step than the one in which   *)
(* it started; and call() settles only in the step in which the first link *)
(* ends.  With [A, B] the resolver ends before B goes on after next, and B *)
(* ends before A goes on after next.                                       *)
(***************************************************************************)
C18_OnionOrder ==
    [][ \A c \in DOMAIN calls :
          LET a == calls[c]
              b == calls'[c]
              n == Len(b.stack)
              started == Len(LinkInvocations(b)) - Len(LinkInvocations(a))
          IN  /\ n < Len(a.stack) =>
                    /\ n = Len(a.stack) - 1
                    /\ SubSeq(b.stack, 1, n - 1) = SubSeq(a.stack, 1, n - 1)
                    /\ n >= 1 =>
                          b.stack[n] = [a.stack[n] EXCEPT
                                          !.res = LastDelivered(b),
                                          !.seen = @ \cup {Kept(LastDelivered(b), b.origin)}]
              /\ \A k \in DOMAIN a.stack \cap DOMAIN b.stack :
                    b.stack[k].res # a.stack[k].res
                        => k = n /\ Len(a.stack) = n + 1
              /\ (a.status = "running" /\ b.status # "running") =>
                    /\ Len(a.stack) = 1 /\ b.stack = << >>
                    /\ b.status \in {"resolved", "rejected"}
              /\ started = 1 =>
                    /\ n = Len(a.stack) + 1
                    /\ b.status = "running"
      ]_vars

\* With [A, B]: the terminal link and B have ended, and A, still running,
\* holds the result the terminal link returned.
C18_Witness ==
    \E c \in DOMAIN calls :
        /\ Running(c)
        /\ calls[c].links = << "A", "B", Terminal >>
        /\ Len(calls[c].stack) = 1
        /\ calls[c].origin.kind = "terminalOk"
        /\ calls[c].origin.at = 3
        /\ Top(c).res.t = "result" /\ OkOf(Top(c).res)

(***************************************************************************)
(* C19 as stated.  No call changes a field of a procedure: every instance  *)
(* is as it was constructed, and the links of every call are the stored    *)
(* list followed by one terminal link.  In every settled call in which     *)
(* each middleware invoked next exactly once, each declared middleware ran *)
(* exactly once and the resolver was invoked exactly once.                 *)
(***************************************************************************)
C19_CallLeavesFields ==
    /\ \A p \in DOMAIN procs : procs[p] = derived[p].made
    /\ \A c \in Started :
          LET cl  == calls[c]
              n   == Len(cl.links)
              inv == LinkInvocations(cl)
          IN  /\ cl.links = derived[cl.proc].made.middlewares \o << Terminal >>
              /\ (Settled(c) /\ \A i \in 1 .. n - 1 : cl.nextCalls[i] = 1) =>
                    /\ \A i \in 1 .. n - 1 : CountIn(inv, i) = 1
                    /\ CountIn(UserFnCalls(cl), "resolver") = 1

(***************************************************************************)
(* C19 amended.  No call changes a field of a procedure, and the links of  *)
(* every call are the stored list followed by one terminal link.  In every *)
(* settled call in which each middleware invoked next exactly once, each   *)
(* declared middleware and the terminal link ran exactly once, the input   *)
(* validator was invoked exactly once and the resolver at most once: once  *)
(* when the input parse succeeded, never when the input validator threw.   *)
(***************************************************************************)
C19_CallLeavesFieldsAmended ==
    /\ \A p \in DOMAIN procs : procs[p] = derived[p].made
    /\ \A c \in Started :
          LET cl  == calls[c]
              n   == Len(cl.links)
              inv == LinkInvocations(cl)
              fns == UserFnCalls(cl)
          IN  /\ cl.links = derived[cl.proc].made.middlewares \o << Terminal >>
              /\ CountIn(cl.links, Terminal) = 1
              /\ (Settled(c) /\ \A i \in 1 .. n - 1 : cl.nextCalls[i] = 1) =>
                    /\ \A i \in 1 .. n : CountIn(inv, i) = 1
                    /\ CountIn(fns, "parseInputFn") = 1
                    /\ CountIn(fns, "resolver") <= 1
              /\ CountIn(inv, n) = 1 =>
                    /\ cl.origin.kind = "inputThrow"
                          => CountIn(fns, "resolver") = 0
                    /\ cl.origin.kind \in {"resolverThrow", "outputThrow", "terminalOk"}
                          => CountIn(fns, "resolver") = 1

\* Two calls were made on the procedure with [A]; in each A and the
\* terminal link ran once and the resolver was invoked once, and the stored
\* list is still [A].
C19_Witness ==
    /\ Settled(1) /\ Settled(2)
    /\ calls[1].proc = 2 /\ calls[2].proc = 2
    /\ procs[2].middlewares = << "A" >>
    /\ \A c \in {1, 2} :
          /\ LinkInvocations(calls[c]) = << 1, 2 >>
          /\ CountIn(UserFnCalls(calls[c]), "resolver") = 1

(***************************************************************************)
(* C20.  The input validator is invoked only by the terminal link, as the  *)
(* first thing it does, so only after every declared middleware has been   *)
(* invoked, in order, and has invoked next.  It is invoked once per run of *)
(* the terminal link: never in a call in which some middleware has not     *)
(* invoked next.  When it throws, every declared middleware had been       *)
(* invoked before the BAD_REQUEST failure was produced.                    *)
(***************************************************************************)
C20_InputValidationInTerminal ==
    \A c \in Started :
        LET cl  == calls[c]
            n   == Len(cl.links)
            ord == cl.order
            inv == LinkInvocations(cl)
            fns == UserFnCalls(cl)
        IN  /\ \A k \in DOMAIN ord :
                  ord[k].name = "parseInputFn" =>
                    /\ ord[k].link = n
                    /\ k > 1 /\ ord[k - 1] = Event(n, Terminal)
                    /\ \A i \in 1 .. n - 1 :
                          \E j \in 1 .. k - 1 :
                            /\ ord[j] = Event(i, cl.links[i])
                            /\ \E h \in j + 1 .. k - 1 :
                                  ord[h] = Event(i + 1, cl.links[i + 1])
            /\ CountIn(fns, "parseInputFn") = CountIn(inv, n)
            /\ (\E i \in 1 .. n - 1 : cl.nextCalls[i] = 0)
                  => CountIn(fns, "parseInputFn") = 0
            /\ cl.origin.kind = "inputThrow" =>
                  /\ \A i \in 1 .. n - 1 : CountIn(inv, i) >= 1 /\ cl.nextCalls[i] >= 1
                  /\ ~PendingThrow(cl) => ErrorOf(LastDelivered(cl)).code = "BAD_REQUEST"

\* With [A, B] and an input validator that threw: A, B and the terminal link
\* were invoked in that order before the validator, and call() rejected with
\* BAD_REQUEST.
C20_Witness ==
    \E c \in Done :
        /\ calls[c].links = << "A", "B", Terminal >>
        /\ calls[c].origin.kind = "inputThrow"
        /\ calls[c].order = << Event(1, "A"), Event(2, "B"), Event(3, Terminal),
                               Event(3, "parseInputFn") >>
        /\ calls[c].status = "rejected"
        /\ calls[c].error.code = "BAD_REQUEST"

====
